---- MODULE Spec2Model ----
(***************************************************************************)
(* subnuker: the native srt pipeline (SrtProject driven by start_srt).     *)
(*                                                                         *)
(* Text is a sequence of one-character strings.  A file on disk is a       *)
(* sequence of the same tokens, where the token "0xFF" stands for a byte   *)
(* that is not valid UTF-8, "pilcrow" for the character U+00B6 and "note"  *)
(* for U+266A.  Cell indices are 0-based as in the Python source; the      *)
(* i-th cell of the Python list is cells[i + 1] here.                      *)
(***************************************************************************)
EXTENDS Naturals, Sequences, FiniteSets

VARIABLES
    disk,       \* filename -> bytes of the file
    orig,       \* history: disk as it was when the run started
    nfiles,     \* len(Config.filenames); filenames are 1..nfiles
    patterns,   \* Config.patterns
    autoyes,    \* Config.options.autoyes
    chardet,    \* whether the chardet module can be imported
    results,    \* Config.results
    idx,        \* position of the loop of start_srt (0 before the first file)
    pc,         \* position inside SrtProject.__init__ / the driver
    modified,   \* self.modified
    decoded,    \* history: the text returned by self.open()
    text,       \* local `text` of __init__
    cells,      \* self.cells
    matches,    \* local `matches` of __init__
    deletions,  \* local `deletions` of prompt / __init__
    prompted,   \* history: <<match, key>> of every prompt shown for this file
    target,     \* the caller's list after remove_elements returned
    presave,    \* history: self.cells on entry to save
    wrote,      \* history: the current file was opened for writing
    exitcode,   \* "none" while running, else the exit status "0" or "1"
    log         \* diagnostics emitted so far, oldest first

vars == <<disk, orig, nfiles, patterns, autoyes, chardet, results, idx, pc,
          modified, decoded, text, cells, matches, deletions, prompted,
          target, presave, wrote, exitcode, log>>

----------------------------------------------------------------------------
(* Bounds of the model *)

NumFiles == 2
MaxPatterns == 2
MaxTextLen == 9

----------------------------------------------------------------------------
(* Characters and Python string primitives *)

NL == "\n"
CR == "\r"
BADBYTE == "0xFF"
Digit == <<"0", "1", "2", "3", "4", "5", "6", "7", "8", "9">>

Range(s) == {s[i] : i \in DOMAIN s}

Min(S) == CHOOSE x \in S : \A y \in S : x <= y

\* sep occurs in s starting at position i (1-based)
OccursAt(s, sep, i) ==
    /\ i + Len(sep) - 1 <= Len(s)
    /\ \A k \in 1..Len(sep) : s[i + k - 1] = sep[k]

\* `sep in s`
Contains(s, sep) == \E i \in 1..(Len(s) + 1) : OccursAt(s, sep, i)

\* s.endswith(suffix)
endswith(s, suffix) ==
    /\ Len(suffix) <= Len(s)
    /\ OccursAt(s, suffix, Len(s) - Len(suffix) + 1)

\* str(num) for a natural number
RECURSIVE str(_)
str(num) ==
    IF num < 10 THEN <<Digit[num + 1]>>
    ELSE str(num \div 10) \o <<Digit[(num % 10) + 1]>>

\* s.split(sep): left to right, non-overlapping, empty pieces kept
RECURSIVE str_split(_, _)
str_split(s, sep) ==
    IF ~Contains(s, sep) THEN <<s>>
    ELSE LET i == Min({j \in 1..Len(s) : OccursAt(s, sep, j)})
         IN  <<SubSeq(s, 1, i - 1)>>
                 \o str_split(SubSeq(s, i + Len(sep), Len(s)), sep)

\* s.splitlines(): breaks at \n, \r\n and \r; no empty piece after a final break
RECURSIVE splitlines(_)
splitlines(s) ==
    IF s = <<>> THEN <<>>
    ELSE LET brk == {i \in 1..Len(s) : s[i] \in {NL, CR}}
         IN  IF brk = {} THEN <<s>>
             ELSE LET i == Min(brk)
                      w == IF s[i] = CR /\ i < Len(s) /\ s[i + 1] = NL
                           THEN 2 ELSE 1
                  IN  <<SubSeq(s, 1, i - 1)>>
                          \o splitlines(SubSeq(s, i + w, Len(s)))

\* sep.join(list)
RECURSIVE join(_, _)
join(sep, list) ==
    IF list = <<>> THEN <<>>
    ELSE IF Len(list) = 1 THEN list[1]
    ELSE list[1] \o sep \o join(sep, Tail(list))

\* reversed(s)
reversed(s) == [i \in 1..Len(s) |-> s[Len(s) + 1 - i]]

\* the elements of a finite set of naturals in ascending order
RECURSIVE Ascending(_)
Ascending(S) ==
    IF S = {} THEN <<>> ELSE <<Min(S)>> \o Ascending(S \ {Min(S)})

----------------------------------------------------------------------------
(* Config *)

\* Config.CHARFIXES = {'¶': '♪'}
CHARFIXES == [pilcrow |-> "note"]

\* A literal term, and a compiled regex of the shape (?<![neg])literal, the
\* shape of the entries of Config.REGEX.  "w." abbreviates 'www.' and ".c"
\* abbreviates '.com'.
Term(s) == [kind |-> "str", neg |-> {}, s |-> s]
Regex(neg, s) == [kind |-> "regex", neg |-> neg, s |-> s]

TERMS == <<Term(<<".", "c">>), Term(<<"w", ".">>)>>
REGEX == <<Regex({"."}, <<".", "c">>), Regex({"a", "c", "w", "1", "2", "3"}, <<"w", ".">>)>>

\* pattern_logic_srt without pattern files: compiled REGEX or TERMS
pattern_logic_srt(regex) == IF regex THEN REGEX ELSE TERMS

----------------------------------------------------------------------------
(* Pure functions of the pipeline *)

\* ismatch(text, pattern)
ismatch(t, pattern) ==
    IF pattern.kind = "regex"
    THEN \E i \in 1..(Len(t) + 1) :
            /\ OccursAt(t, pattern.s, i)
            /\ i = 1 \/ t[i - 1] \notin pattern.neg
    ELSE Contains(t, pattern.s)

\* SrtProject.fixchars: returns the fixed text and the new self.modified
fixchars_always_modified(t, mod) ==
    [text |-> [i \in 1..Len(t) |->
                  IF t[i] \in DOMAIN CHARFIXES THEN CHARFIXES[t[i]] ELSE t[i]],
     modified |-> TRUE]

fixchars(t, mod) ==
    LET fixed == [i \in 1..Len(t) |->
                     IF t[i] \in DOMAIN CHARFIXES THEN CHARFIXES[t[i]] ELSE t[i]]
    IN  [text |-> fixed, modified |-> IF fixed # t THEN TRUE ELSE mod]

\* SrtProject.split: the cells, or the fatal format error
split_without_format_error(t) ==
    IF Contains(t, <<NL, NL>>)
    THEN [exit |-> FALSE, cells |-> str_split(t, <<NL, NL>>)]
    ELSE [exit |-> FALSE, cells |-> str_split(t, <<CR, NL, CR, NL>>)]

split_crlf_first(t) ==
    IF Contains(t, <<CR, NL, CR, NL>>)
    THEN [exit |-> FALSE, cells |-> str_split(t, <<CR, NL, CR, NL>>)]
    ELSE IF Contains(t, <<NL, NL>>)
    THEN [exit |-> FALSE, cells |-> str_split(t, <<NL, NL>>)]
    ELSE [exit |-> TRUE, cells |-> <<>>]

split(t) ==
    IF Contains(t, <<NL, NL>>)
    THEN [exit |-> FALSE, cells |-> str_split(t, <<NL, NL>>)]
    ELSE IF Contains(t, <<CR, NL, CR, NL>>)
    THEN [exit |-> FALSE, cells |-> str_split(t, <<CR, NL, CR, NL>>)]
    ELSE [exit |-> TRUE, cells |-> <<>>]

\* the indices appended for one cell by the inner loop of search
RECURSIVE hits_no_break(_, _, _)
hits_no_break(cell, index, pats) ==
    IF pats = <<>> THEN <<>>
    ELSE (IF ismatch(cell, Head(pats)) THEN <<index>> ELSE <<>>)
             \o hits_no_break(cell, index, Tail(pats))

RECURSIVE hits(_, _, _)
hits(cell, index, pats) ==
    IF pats = <<>> THEN <<>>
    ELSE IF ismatch(cell, Head(pats)) THEN <<index>>
    ELSE hits(cell, index, Tail(pats))

\* SrtProject.search
RECURSIVE search_from(_, _, _)
search_from(cs, index, pats) ==
    IF index >= Len(cs) THEN <<>>
    ELSE hits(cs[index + 1], index, pats) \o search_from(cs, index + 1, pats)

RECURSIVE search_from_no_break(_, _, _)
search_from_no_break(cs, index, pats) ==
    IF index >= Len(cs) THEN <<>>
    ELSE hits_no_break(cs[index + 1], index, pats)
             \o search_from_no_break(cs, index + 1, pats)

search_no_break(cs, pats) == search_from_no_break(cs, 0, pats)

search(cs, pats) == search_from(cs, 0, pats)

\* del copied[index]
del_at(copied, index) ==
    SubSeq(copied, 1, index) \o SubSeq(copied, index + 2, Len(copied))

RECURSIVE del_all(_, _)
del_all(copied, indices) ==
    IF indices = <<>> THEN copied
    ELSE del_all(del_at(copied, Head(indices)), Tail(indices))

\* remove_elements: the returned list, and the caller's list after the call
remove_elements_in_place(tgt, indices) ==
    LET copied == del_all(tgt, reversed(indices))
    IN  [copied |-> copied, target |-> copied]

remove_elements(tgt, indices) ==
    [copied |-> del_all(tgt, reversed(indices)), target |-> tgt]

\* SrtProject.renumber
RECURSIVE renumber_by_position(_, _)
renumber_by_position(cs, num) ==
    IF cs = <<>> THEN <<>>
    ELSE LET cell_split == splitlines(Head(cs))
         IN  IF Len(cell_split) >= 2
             THEN <<join(<<NL>>, [cell_split EXCEPT ![1] = str(num + 1)])>>
                      \o renumber_by_position(Tail(cs), num + 1)
             ELSE renumber_by_position(Tail(cs), num + 1)

RECURSIVE renumber_keep_short(_, _)
renumber_keep_short(cs, num) ==
    IF cs = <<>> THEN <<>>
    ELSE LET cell_split == splitlines(Head(cs))
         IN  IF Len(cell_split) >= 2
             THEN <<join(<<NL>>, [cell_split EXCEPT ![1] = str(num + 1)])>>
                      \o renumber_keep_short(Tail(cs), num + 1)
             ELSE <<join(<<NL>>, cell_split)>>
                      \o renumber_keep_short(Tail(cs), num)

RECURSIVE renumber_from(_, _)
renumber_from(cs, num) ==
    IF cs = <<>> THEN <<>>
    ELSE LET cell_split == splitlines(Head(cs))
         IN  IF Len(cell_split) >= 2
             THEN <<join(<<NL>>, [cell_split EXCEPT ![1] = str(num + 1)])>>
                      \o renumber_from(Tail(cs), num + 1)
             ELSE renumber_from(Tail(cs), num)

renumber_positional(cs) == renumber_by_position(cs, 0)

renumber_retaining(cs) == renumber_keep_short(cs, 0)

renumber(cs) == renumber_from(cs, 0)

\* SrtProject.save up to the write: self.cells afterwards, whether
\* self.cells[-1] raised IndexError, and the text handed to write()
save_no_newline(cs) ==
    LET renum == renumber(cs)
    IN  IF renum = <<>> THEN [raised |-> TRUE, cells |-> renum, data |-> <<>>]
        ELSE [raised |-> FALSE, cells |-> renum,
              data |-> join(<<NL, NL>>, renum)]

save(cs) ==
    LET renum == renumber(cs)
    IN  IF renum = <<>> THEN [raised |-> TRUE, cells |-> renum, data |-> <<>>]
        ELSE LET last == renum[Len(renum)]
                 fixed == IF endswith(last, <<NL>>) THEN renum
                          ELSE [renum EXCEPT ![Len(renum)] = last \o <<NL>>]
             IN  [raised |-> FALSE, cells |-> fixed,
                  data |-> join(<<NL, NL>>, fixed)]

----------------------------------------------------------------------------
(* Decoding *)

\* what chardet.detect(binary).get('encoding') may answer for bytes that are
\* not valid UTF-8: nothing, the mislabelled CP949, a codec that cannot decode
\* the bytes, or a name Python has no codec for
Detections == {"None", "CP949", "GB2312", "EUC-TW"}

\* get_encoding once chardet is imported
get_encoding(detected) == IF detected = "CP949" THEN "iso-8859-1" ELSE detected

\* binary.decode(errors='ignore')
decode_ignore(binary) == SelectSeq(binary, LAMBDA b : b # BADBYTE)

\* binary.decode(encoding): the exception raised ("none" if none) and the text
decode(binary, encoding) ==
    IF encoding = "None" THEN [raises |-> "TypeError", text |-> <<>>]
    ELSE IF encoding = "iso-8859-1"
    THEN [raises |-> "none",
          text |-> [i \in 1..Len(binary) |->
                       IF binary[i] = BADBYTE THEN "y_diaeresis" ELSE binary[i]]]
    ELSE IF encoding = "utf-8"
    THEN IF BADBYTE \in Range(binary)
         THEN [raises |-> "UnicodeDecodeError", text |-> <<>>]
         ELSE [raises |-> "none", text |-> binary]
    ELSE IF encoding = "GB2312"
    THEN IF BADBYTE \in Range(binary)
         THEN [raises |-> "UnicodeDecodeError", text |-> <<>>]
         ELSE [raises |-> "none", text |-> binary]
    ELSE [raises |-> "LookupError", text |-> <<>>]

\* SrtProject.open: the text, or the message logged before sys.exit(1)
open(binary, chardet_ok, detected) ==
    LET strict == decode(binary, "utf-8")
    IN  IF strict.raises = "none"
        THEN [exit |-> FALSE, text |-> strict.text, msg |-> ""]
        ELSE IF ~chardet_ok
        THEN [exit |-> TRUE, text |-> <<>>, msg |-> "Please install the 'chardet' module"]
        ELSE LET second == decode(binary, get_encoding(detected))
             IN  IF second.raises = "none"
                 THEN [exit |-> FALSE, text |-> second.text, msg |-> ""]
                 ELSE IF second.raises = "LookupError"
                 THEN [exit |-> FALSE, text |-> decode_ignore(binary), msg |-> ""]
                 ELSE [exit |-> TRUE, text |-> <<>>, msg |-> "Unable to open"]

----------------------------------------------------------------------------
(* The prompt *)

\* the keys getch() may return
Keys == {"y", "Y", "n", "N", "q"}

\* str.lower on one key
lower(key) == IF key = "Y" THEN "y" ELSE IF key = "N" THEN "n" ELSE key

\* one iteration of the loop of SrtProject.prompt
prompt_key_case_sensitive(key, match, dels, mod) ==
    IF key = "y"
    THEN [exit |-> FALSE, deletions |-> Append(dels, match), warn |-> FALSE]
    ELSE IF key = "n"
    THEN [exit |-> FALSE, deletions |-> dels, warn |-> FALSE]
    ELSE [exit |-> TRUE, deletions |-> dels, warn |-> dels # <<>> \/ mod]

prompt_key_skip_unknown(key, match, dels, mod) ==
    IF lower(key) = "y"
    THEN [exit |-> FALSE, deletions |-> Append(dels, match), warn |-> FALSE]
    ELSE [exit |-> FALSE, deletions |-> dels, warn |-> FALSE]

prompt_key(key, match, dels, mod) ==
    LET response == lower(key)
    IN  IF response = "y"
        THEN [exit |-> FALSE, deletions |-> Append(dels, match), warn |-> FALSE]
        ELSE IF response = "n"
        THEN [exit |-> FALSE, deletions |-> dels, warn |-> FALSE]
        ELSE [exit |-> TRUE, deletions |-> dels, warn |-> dels # <<>> \/ mod]

----------------------------------------------------------------------------
(* Inputs *)

ScenarioA ==
    <<"1", NL, "a", NL, NL,
      "2", NL, "w", ".", "a", ".", "c", NL, NL,
      "3", NL, "a", NL>>
AllAds == <<"1", NL, "w", ".", NL, NL, "2", NL, ".", ".", "c", NL>>
Clean == <<"1", NL, "a", NL, NL, "2", NL, "a", NL>>
Pilcrow == <<"1", NL, "pilcrow", NL, NL, "2", NL, "w", ".", NL>>
Fragment ==
    <<"1", NL, "a", NL, NL,
      ".", "c", NL, NL,
      "3", NL, "w", ".", NL, NL,
      "4", NL, "w", ".", "c", NL, NL>>
NoDelimiter == <<"1", NL, "pilcrow", NL>>
BadByte == <<"1", NL, "a", BADBYTE, NL, NL, "2", NL, "w", ".", NL>>
CrLf == <<"1", CR, NL, "a", CR, NL, CR, NL, "2", CR, NL, "w", ".", CR, NL>>

Corpus == {ScenarioA, AllAds, Clean, Pilcrow, Fragment, NoDelimiter, BadByte, CrLf}

\* files for the two delimiters: one holding both, one holding neither and
\* nothing fixchars changes
Mixed ==
    <<"1", NL, "w", ".", CR, NL, CR, NL,
      "2", NL, "a", NL, NL,
      "3", NL, "a", NL>>
PlainLine == <<"1", NL, "w", ".", NL>>

DelimiterFiles == {Mixed, PlainLine, NoDelimiter, CrLf, Pilcrow}

\* the pattern lists a pattern file can give, compiled when --regex is set
TermPool == {Term(<<".", "c">>), Term(<<"w", ".">>), Term(<<"a">>)}
RegexPool == {Regex({"."}, <<".", "c">>), Regex({}, <<"w", ".">>), Regex({"w"}, <<".">>)}
ListsOver(pool) == UNION {[1..k -> pool] : k \in 1..MaxPatterns}
PatternFiles == ListsOver(TermPool) \cup ListsOver(RegexPool)

\* every text of at most MaxTextLen characters over digits and the newline
TextAlphabet == {"1", "2", NL}
Texts == UNION {[1..k -> TextAlphabet] : k \in 0..MaxTextLen}

\* texts whose lines end in \r\n or \r
CrTexts ==
    {CrLf,
     <<"1", CR, "1", NL, NL, "2", CR, "2", NL>>,
     <<"1", CR, NL, "1", NL, NL, "2">>,
     <<"1", NL, "1", NL, NL, "2", NL, "1", CR, NL, CR, NL, "3", NL, "1">>}

----------------------------------------------------------------------------
(* The batch: start_srt and SrtProject.__init__ *)

Entry(msg, file) == [msg |-> msg, file |-> file]

InitWith(n, files, lists) ==
    /\ nfiles = n
    /\ disk \in [1..n -> files]
    /\ orig = disk
    /\ patterns \in lists
    /\ autoyes \in BOOLEAN
    /\ chardet \in BOOLEAN
    /\ results = FALSE
    /\ idx = 0
    /\ pc = "loop"
    /\ modified = FALSE
    /\ decoded = <<>>
    /\ text = <<>>
    /\ cells = <<>>
    /\ matches = <<>>
    /\ deletions = <<>>
    /\ prompted = <<>>
    /\ target = <<>>
    /\ presave = <<>>
    /\ wrote = FALSE
    /\ exitcode = "none"
    /\ log = <<>>

Init == InitWith(NumFiles, Corpus, {pattern_logic_srt(regex) : regex \in BOOLEAN})

\* the for loop of start_srt, and the end of main
NextFile ==
    /\ pc = "loop"
    /\ IF idx < nfiles
       THEN /\ idx' = idx + 1
            /\ pc' = "open"
            /\ modified' = FALSE
            /\ decoded' = <<>>
            /\ text' = <<>>
            /\ cells' = <<>>
            /\ matches' = <<>>
            /\ deletions' = <<>>
            /\ prompted' = <<>>
            /\ target' = <<>>
            /\ presave' = <<>>
            /\ wrote' = FALSE
            /\ UNCHANGED <<exitcode, log>>
       ELSE /\ pc' = "exit"
            /\ exitcode' = "0"
            /\ log' = IF results THEN log ELSE Append(log, Entry("returned no results", 0))
            /\ UNCHANGED <<idx, modified, decoded, text, cells, matches,
                           deletions, prompted, target, presave, wrote>>
    /\ UNCHANGED <<disk, orig, nfiles, patterns, autoyes, chardet, results>>

\* text = self.open()
Open ==
    /\ pc = "open"
    /\ \E detected \in Detections :
          LET r == open(disk[idx], chardet, detected)
          IN  IF r.exit
              THEN /\ pc' = "exit"
                   /\ exitcode' = "1"
                   /\ log' = Append(log, Entry(r.msg, idx))
                   /\ UNCHANGED <<decoded, text>>
              ELSE /\ pc' = "fixchars"
                   /\ decoded' = r.text
                   /\ text' = r.text
                   /\ UNCHANGED <<exitcode, log>>
    /\ UNCHANGED <<disk, orig, nfiles, patterns, autoyes, chardet, results, idx,
                   modified, cells, matches, deletions, prompted, target,
                   presave, wrote>>

\* text = self.fixchars(text)
Fixchars ==
    /\ pc = "fixchars"
    /\ LET r == fixchars(text, modified)
       IN  /\ text' = r.text
           /\ modified' = r.modified
    /\ pc' = "split"
    /\ UNCHANGED <<disk, orig, nfiles, patterns, autoyes, chardet, results, idx,
                   decoded, cells, matches, deletions, prompted, target,
                   presave, wrote, exitcode, log>>

\* self.cells = self.split(text)
Split ==
    /\ pc = "split"
    /\ LET r == split(text)
       IN  IF r.exit
           THEN /\ pc' = "exit"
                /\ exitcode' = "1"
                /\ log' = Append(log, Entry("does not appear to be a 'srt' subtitle file", idx))
                /\ UNCHANGED cells
           ELSE /\ pc' = "search"
                /\ cells' = r.cells
                /\ UNCHANGED <<exitcode, log>>
    /\ UNCHANGED <<disk, orig, nfiles, patterns, autoyes, chardet, results, idx,
                   modified, decoded, text, matches, deletions, prompted,
                   target, presave, wrote>>

\* matches = self.search(); if matches: Config.results = True
Search ==
    /\ pc = "search"
    /\ matches' = search(cells, patterns)
    /\ results' = IF matches' # <<>> THEN TRUE ELSE results
    /\ pc' = IF matches' # <<>> THEN "prompt" ELSE "save"
    /\ UNCHANGED <<disk, orig, nfiles, patterns, autoyes, chardet, idx,
                   modified, decoded, text, cells, deletions, prompted,
                   target, presave, wrote, exitcode, log>>

\* deletions = self.prompt(matches): the whole call with --yes, else one key
Prompt ==
    /\ pc = "prompt"
    /\ IF autoyes
       THEN /\ deletions' = matches
            /\ pc' = "remove"
            /\ UNCHANGED <<prompted, exitcode, log>>
       ELSE \E key \in Keys :
               LET match == matches[Len(prompted) + 1]
                   r == prompt_key(key, match, deletions, modified)
               IN  /\ prompted' = Append(prompted, <<match, key>>)
                   /\ deletions' = r.deletions
                   /\ IF r.exit
                      THEN /\ pc' = "exit"
                           /\ exitcode' = "0"
                           /\ log' = IF r.warn
                                     THEN Append(log, Entry("Not saving changes", idx))
                                     ELSE log
                      ELSE /\ pc' = IF Len(prompted') = Len(matches)
                                    THEN "remove" ELSE "prompt"
                           /\ UNCHANGED <<exitcode, log>>
    /\ UNCHANGED <<disk, orig, nfiles, patterns, autoyes, chardet, results, idx,
                   modified, decoded, text, cells, matches, target, presave,
                   wrote>>

\* if deletions: self.cells = remove_elements(self.cells, deletions)
Remove ==
    /\ pc = "remove"
    /\ IF deletions # <<>>
       THEN LET r == remove_elements(cells, deletions)
            IN  /\ cells' = r.copied
                /\ target' = r.target
                /\ modified' = TRUE
       ELSE UNCHANGED <<cells, target, modified>>
    /\ pc' = "save"
    /\ UNCHANGED <<disk, orig, nfiles, patterns, autoyes, chardet, results, idx,
                   decoded, text, matches, deletions, prompted, presave,
                   wrote, exitcode, log>>

\* what opening and writing the file can do: succeed, fail to open, or fail
\* in write() after the file was truncated
IOOutcomes == {"ok", "open fails", "write fails"}

\* if self.modified: try: self.save() except: LOGGER.error(...)
Save ==
    /\ pc = "save"
    /\ IF modified
       THEN \E io \in IOOutcomes :
               LET r == save(cells)
               IN  /\ presave' = cells
                   /\ cells' = r.cells
                   /\ wrote' = (~r.raised /\ io # "open fails")
                   /\ disk' = IF r.raised \/ io = "open fails" THEN disk
                              ELSE IF io = "write fails"
                              THEN [disk EXCEPT ![idx] = <<>>]
                              ELSE [disk EXCEPT ![idx] = r.data]
                   /\ log' = IF r.raised \/ io # "ok"
                             THEN Append(log, Entry("Failed to save", idx))
                             ELSE log
       ELSE UNCHANGED <<presave, cells, wrote, disk, log>>
    /\ pc' = "loop"
    /\ UNCHANGED <<orig, nfiles, patterns, autoyes, chardet, results, idx,
                   modified, decoded, text, matches, deletions, prompted,
                   target, exitcode>>

Next ==
    \/ NextFile
    \/ Open
    \/ Fixchars
    \/ Split
    \/ Search
    \/ Prompt
    \/ Remove
    \/ Save

Spec == Init /\ [][Next]_vars

----------------------------------------------------------------------------
(* One file with the patterns of a pattern file *)

InitSearch == InitWith(1, Corpus, PatternFiles)

SpecSearch == InitSearch /\ [][Next]_vars

----------------------------------------------------------------------------
(* The batch over files with both, one or neither of the cell delimiters *)

InitSplit ==
    InitWith(NumFiles, DelimiterFiles,
             {pattern_logic_srt(regex) : regex \in BOOLEAN})

SpecSplit == InitSplit /\ [][Next]_vars

----------------------------------------------------------------------------
(* split, remove_elements and save applied to any text and any deletions *)

InitCells ==
    /\ nfiles = 1
    /\ disk = [f \in 1..1 |-> <<>>]
    /\ orig = disk
    /\ patterns = <<>>
    /\ autoyes = TRUE
    /\ chardet = TRUE
    /\ results = FALSE
    /\ idx = 1
    /\ pc = "cells split"
    /\ modified = FALSE
    /\ decoded = <<>>
    /\ text \in Texts \cup CrTexts
    /\ cells = <<>>
    /\ matches = <<>>
    /\ deletions = <<>>
    /\ prompted = <<>>
    /\ target = <<>>
    /\ presave = <<>>
    /\ wrote = FALSE
    /\ exitcode = "none"
    /\ log = <<>>

\* cells = split(text)
CellsSplit ==
    /\ pc = "cells split"
    /\ LET r == split(text)
       IN  IF r.exit
           THEN /\ pc' = "exit"
                /\ exitcode' = "1"
                /\ UNCHANGED cells
           ELSE /\ pc' = "cells remove"
                /\ cells' = r.cells
                /\ UNCHANGED exitcode
    /\ UNCHANGED <<disk, orig, nfiles, patterns, autoyes, chardet, results, idx,
                   modified, decoded, text, matches, deletions, prompted,
                   target, presave, wrote, log>>

\* cells = remove_elements(cells, D) for any ascending list D of valid indices
CellsRemove ==
    /\ pc = "cells remove"
    /\ \E D \in SUBSET (0..(Len(cells) - 1)) :
          LET r == remove_elements(cells, Ascending(D))
          IN  /\ deletions' = Ascending(D)
              /\ cells' = r.copied
              /\ target' = r.target
    /\ pc' = "cells save"
    /\ UNCHANGED <<disk, orig, nfiles, patterns, autoyes, chardet, results, idx,
                   modified, decoded, text, matches, prompted, presave, wrote,
                   exitcode, log>>

\* save() with a write that succeeds
CellsSave ==
    /\ pc = "cells save"
    /\ LET r == save(cells)
       IN  /\ presave' = cells
           /\ cells' = r.cells
           /\ wrote' = ~r.raised
           /\ disk' = IF r.raised THEN disk ELSE [disk EXCEPT ![idx] = r.data]
    /\ pc' = "cells done"
    /\ UNCHANGED <<orig, nfiles, patterns, autoyes, chardet, results, idx,
                   modified, decoded, text, matches, deletions, prompted,
                   target, exitcode, log>>

NextCells ==
    \/ CellsSplit
    \/ CellsRemove
    \/ CellsSave

SpecCells == InitCells /\ [][NextCells]_vars

----------------------------------------------------------------------------
(* Properties *)

IsAscending(s) == \A i, j \in DOMAIN s : i < j => s[i] < s[j]

\* the cells of cs that renumber counts: those with at least two lines
MultiLine(cs) == SelectSeq(cs, LAMBDA c : Len(splitlines(c)) >= 2)

\* C1: a file is opened for writing only when self.modified is true, and a
\* file in which no pattern matched and which fixchars left unchanged is
\* never written: its bytes stay those the run started with.
C1_NoOpSafety ==
    /\ wrote => modified
    /\ idx >= 1 /\ ~wrote => disk[idx] = orig[idx]
    /\ \A f \in (idx + 1)..nfiles : disk[f] = orig[f]
    /\ (pc = "loop" /\ idx >= 1 /\ matches = <<>> /\ text = decoded) => ~wrote

C1_Witness ==
    /\ pc = "loop"
    /\ idx >= 1
    /\ cells # <<>>
    /\ matches = <<>>
    /\ text = decoded
    /\ ~wrote
    /\ disk[idx] = orig[idx]

\* the review of the current file was aborted by a key other than y or n
Aborted ==
    /\ pc = "exit"
    /\ prompted # <<>>
    /\ lower(prompted[Len(prompted)][2]) \notin {"y", "n"}

\* C2: in interactive mode a key other than y/n ends the review at once: it
\* is the last prompt shown, the process has exited, the current file and
\* every later file still hold their original bytes, no further step is
\* possible, and the aborting step leaves the disk (so the files written
\* earlier) as it was.
C2_AbortDiscards ==
    /\ [](/\ \A k \in DOMAIN prompted :
                lower(prompted[k][2]) \notin {"y", "n"}
                    => k = Len(prompted) /\ pc = "exit"
          /\ Aborted =>
                /\ ~wrote
                /\ \A f \in idx..nfiles : disk[f] = orig[f]
                /\ ~ENABLED Next)
    /\ [][pc = "prompt" /\ pc' = "exit" => disk' = disk]_vars

C2_Witness ==
    /\ Aborted
    /\ idx = 2
    /\ disk[1] # orig[1]
    /\ deletions # <<>>
    /\ Len(prompted) < Len(matches)

\* the matches answered y or Y, in the order they were prompted
Approved(pr) ==
    LET yes == SelectSeq(pr, LAMBDA e : e[2] \in {"y", "Y"})
    IN  [k \in 1..Len(yes) |-> yes[k][1]]

\* C10: the deletion list is an ascending, duplicate-free sub-list of the
\* matches; with --yes it is the match list and nothing is prompted;
\* interactively the matches are prompted in ascending order, one at a
\* time, and the list is exactly the matches answered y or Y.
C10_DeletionsAreApprovedMatches ==
    /\ IsAscending(deletions)
    /\ Range(deletions) \subseteq Range(matches)
    /\ autoyes => prompted = <<>> /\ (pc # "prompt" => deletions = matches)
    /\ ~autoyes =>
          /\ Len(prompted) <= Len(matches)
          /\ \A k \in DOMAIN prompted : prompted[k][1] = matches[k]
          /\ deletions = Approved(prompted)
          /\ pc \in {"remove", "save"} => Len(prompted) = Len(matches)

C10_Witness ==
    /\ pc = "remove"
    /\ ~autoyes
    /\ Len(matches) >= 2
    /\ \E k \in DOMAIN prompted : prompted[k][2] = "Y"
    /\ \E k \in DOMAIN prompted : prompted[k][2] = "n"
    /\ deletions # <<>>
    /\ deletions # matches

\* the states in which `matches` is the result of search on the current cells
SearchDone ==
    \/ pc \in {"prompt", "remove"}
    \/ pc = "save" /\ deletions = <<>>

\* every order in which the configured patterns can be listed
Permutations(pats) ==
    {[k \in DOMAIN pats |-> pats[f[k]]] :
        f \in {g \in [DOMAIN pats -> DOMAIN pats] :
                  \A a, b \in DOMAIN pats : a # b => g[a] # g[b]}}

\* C6: search returns a strictly ascending (hence duplicate-free) list of
\* exactly the indices of the cells that at least one pattern matches,
\* and returns the same list for every permutation of the patterns.
C6_SearchDeterministic ==
    SearchDone =>
        /\ IsAscending(matches)
        /\ Range(matches) =
              {i \in 0..(Len(cells) - 1) :
                  \E p \in Range(patterns) : ismatch(cells[i + 1], p)}
        /\ \A perm \in Permutations(patterns) : search(cells, perm) = matches

C6_Witness ==
    /\ pc = "prompt"
    /\ Len(patterns) >= 2
    /\ patterns[1] # patterns[2]
    /\ \E i \in DOMAIN cells :
          ismatch(cells[i], patterns[1]) /\ ismatch(cells[i], patterns[2])
    /\ \E i \in DOMAIN cells :
          ~ismatch(cells[i], patterns[1]) /\ ismatch(cells[i], patterns[2])
    /\ \E i \in DOMAIN cells :
          \A p \in Range(patterns) : ~ismatch(cells[i], p)

\* C7: a failure inside save is fatal: once "Failed to save" is reported for
\* a file, no later file is processed and the process does not exit with
\* status 0.
C7_SaveFailureFatal ==
    \A k \in DOMAIN log :
        log[k].msg = "Failed to save" => idx = log[k].file /\ exitcode # "0"

\* C8: a file whose bytes fail strict UTF-8 decoding is still opened,
\* whatever chardet detects: open never ends the process for it.
C8_DecodeNeverFatal ==
    \A k \in DOMAIN log :
        (chardet /\ log[k].file >= 1 /\ BADBYTE \in Range(orig[log[k].file]))
            => log[k].msg # "Unable to open"

----------------------------------------------------------------------------
(* Properties of split, remove_elements and save on any text *)

\* C5: remove_elements(cells, D) returns the cells whose index is not in D,
\* in their original order, so len(cells) - len(D) of them, and the list the
\* caller passed is unchanged.
C5_RemoveElements ==
    pc = "cells save" =>
        LET before == split(text).cells
            keep == Ascending({i \in 0..(Len(before) - 1) :
                                  i \notin Range(deletions)})
        IN  /\ cells = [k \in 1..Len(keep) |-> before[keep[k] + 1]]
            /\ Len(cells) = Len(before) - Len(deletions)
            /\ target = before

C5_Witness ==
    /\ pc = "cells save"
    /\ Len(deletions) >= 2
    /\ deletions[1] > 0
    /\ Len(cells) >= 2
    /\ cells[1] # cells[2]
    /\ Len(target) = Len(cells) + Len(deletions)

\* C3: in the text save writes, the k-th cell is the k-th cell with at
\* least two lines of the cells left after deletion, and its first line is
\* the decimal string of k whatever number it carried; cells with fewer
\* than two lines get no number.
C3_Renumbered ==
    (pc = "cells done" /\ wrote) =>
        LET multi == MultiLine(presave)
        IN  /\ Len(cells) = Len(multi)
            /\ \A k \in DOMAIN multi : splitlines(cells[k])[1] = str(k)
            /\ disk[idx] = join(<<NL, NL>>, cells)

C3_Witness ==
    /\ pc = "cells done"
    /\ wrote
    /\ deletions # <<>>
    /\ Len(MultiLine(target)) > Len(cells)
    /\ \E k \in DOMAIN cells :
          splitlines(MultiLine(presave)[k])[1] # splitlines(cells[k])[1]

\* C4 as claimed: every cell left after deletion, also one with fewer than
\* two lines, is in the written text.
C4_ShortCellsRetained ==
    (pc = "cells done" /\ wrote) => Len(cells) = Len(presave)

\* C4 amended: a cell with fewer than two lines gets no number and is left
\* out of the written text, which holds exactly the cells with at least two
\* lines, in their original order, each with its lines after the first
\* unchanged; when no cell has two lines nothing is written.
C4_ShortCellsDropped ==
    pc = "cells done" =>
        LET multi == MultiLine(presave)
        IN  /\ wrote <=> multi # <<>>
            /\ Len(cells) = Len(multi)
            /\ \A k \in DOMAIN multi :
                  Tail(splitlines(cells[k])) = Tail(splitlines(multi[k]))
            /\ wrote => disk[idx] = join(<<NL, NL>>, cells)

C4_Witness ==
    /\ pc = "cells done"
    /\ wrote
    /\ Len(cells) >= 1
    /\ \E k \in DOMAIN presave : Len(splitlines(presave[k])) = 1
    /\ presave[Len(presave)] = <<>>
    /\ Len(cells) = Len(presave) - 2

\* every cell starts with the decimal string of its 1-based position
CorrectlyNumbered(cs) ==
    \A k \in DOMAIN cs :
        /\ splitlines(cs[k]) # <<>>
        /\ splitlines(cs[k])[1] = str(k)

\* the texts C9 is about, serialized without any deletion
RoundTrip ==
    /\ pc = "cells done"
    /\ deletions = <<>>
    /\ Contains(text, <<NL, NL>>)
    /\ CorrectlyNumbered(presave)

\* C9 as claimed: split followed by serialize is the identity on a text
\* with a "\n\n" delimiter and correctly numbered cells.
C9_RoundTripIdentity == RoundTrip => wrote /\ disk[idx] = text

\* C9 amended: when moreover every cell has at least two lines and "\n" is
\* the only line break, the written text is the original text, with one
\* newline appended if it did not end with one.
C9_RoundTripUpToFinalNewline ==
    (/\ RoundTrip
     /\ \A k \in DOMAIN presave : Len(splitlines(presave[k])) >= 2
     /\ CR \notin Range(text))
        => /\ wrote
           /\ disk[idx] = IF endswith(text, <<NL>>) THEN text ELSE text \o <<NL>>

C9_Witness ==
    /\ RoundTrip
    /\ \A k \in DOMAIN presave : Len(splitlines(presave[k])) >= 2
    /\ CR \notin Range(text)
    /\ wrote
    /\ disk[idx] = text

----------------------------------------------------------------------------
(* Properties of split inside the batch *)

\* the text holds one of the two delimiters split looks for
HasDelimiter(t) == Contains(t, <<NL, NL>>) \/ Contains(t, <<CR, NL, CR, NL>>)

\* the process ended in split, on the format error of the current file
FormatExit ==
    /\ pc = "exit"
    /\ log # <<>>
    /\ log[Len(log)] = Entry("does not appear to be a 'srt' subtitle file", idx)

\* the states in which self.cells is what split returned for `text`
CellsFresh == pc = "search" \/ SearchDone

\* C11: a text with neither "\n\n" nor "\r\n\r\n" never gets past split:
\* the process exits with status 1 with nothing searched, prompted or
\* written for the file, also when fixchars had set the modified flag, and
\* no later file is touched; and when "\n\n" occurs the cells are the
\* pieces between the "\n\n", even if "\r\n\r\n" occurs as well.
C11_FormatErrorFatal ==
    /\ pc \in {"search", "prompt", "remove", "save"} => HasDelimiter(text)
    /\ pc = "loop" /\ idx >= 1 => HasDelimiter(text)
    /\ (pc = "exit" /\ idx >= 1 /\ decoded # <<>> /\ ~HasDelimiter(text))
          => FormatExit
    /\ FormatExit =>
          /\ ~HasDelimiter(text)
          /\ exitcode = "1"
          /\ cells = <<>>
          /\ matches = <<>>
          /\ prompted = <<>>
          /\ ~wrote
          /\ \A f \in idx..nfiles : disk[f] = orig[f]
          /\ ~ENABLED Next
    /\ (CellsFresh /\ Contains(text, <<NL, NL>>)) =>
          /\ join(<<NL, NL>>, cells) = text
          /\ \A k \in DOMAIN cells : ~Contains(cells[k], <<NL, NL>>)

C11_Witness ==
    /\ FormatExit
    /\ modified
    /\ text # decoded
    /\ idx < nfiles
    /\ \E k \in DOMAIN text : text[k] = "note"

====
